---- MODULE Spec2Model ----
(***************************************************************************)
(* Model of ns/port/wred_port.py: the PolicyMap threshold table and the    *)
(* WREDPort that re-parameterises a RED port per packet.                   *)
(*                                                                         *)
(* Python floats are modelled as exact rationals [n, d] in lowest terms,   *)
(* so x / 100 is the rational x/100 and not the integer x.                 *)
(***************************************************************************)
EXTENDS Integers, Sequences, FiniteSets, TLC

VARIABLES
    pm_args,    \* arguments of PolicyMap(num_priorities, max_threshold)
    pm,         \* outcome of PolicyMap.__init__: [err, line, self]
    pm_adds,    \* add_policy() calls made on the built PolicyMap, and the last outcome
    args,       \* arguments of WREDPort(...)
    status,     \* "none" before construction, "ok", or the exception raised
    self,       \* the WREDPort object (None unless status = "ok")
    calls,      \* number of put() calls made on the port
    last,       \* what the last put() call did
    lastmap      \* what the last policy_mapper() call made outside put() did

vars == <<pm_args, pm, pm_adds, args, status, self, calls, last, lastmap>>

----------------------------------------------------------------------------
(* Bounds of the model *)

MaxPrio == 4        \* PolicyMap is built for num_priorities in 0..MaxPrio
MaxFlow == 1        \* flow ids 0..MaxFlow may be assigned a priority
MaxCalls == 3       \* put() and policy_mapper() calls per port
MaxAdds == 1        \* add_policy() calls on a built PolicyMap

NumPriorities == {0, 4, 8}
MaxThresholds == {40, 101}
ClassValues == {0, 3, 9}
QLimits == {1000}
PacketSizes == {400}
WeightFactors == {1, 2}
IdleCycles == {1}
AddClasses == {0, 9}
AddThresholds == {<<10, 20>>, <<0, 100>>, <<30, 20>>}

None == [none |-> TRUE]

----------------------------------------------------------------------------
(* Exact rational arithmetic standing in for Python floats *)

Abs(x) == IF x < 0 THEN -x ELSE x

RECURSIVE GCD(_, _)
GCD(a, b) == IF b = 0 THEN a ELSE GCD(b, a % b)

Rat(n, d) ==
    LET g == GCD(Abs(n), Abs(d))
        s == IF d < 0 THEN -1 ELSE 1
    IN  [n |-> s * (n \div g), d |-> s * (d \div g)]

Int2Rat(i) == [n |-> i, d |-> 1]

RatAdd(a, b) ==
    LET g == GCD(a.d, b.d)
    IN  Rat(a.n * (b.d \div g) + b.n * (a.d \div g), (a.d \div g) * b.d)

RatNeg(a) == [n |-> -a.n, d |-> a.d]

RatSub(a, b) == RatAdd(a, RatNeg(b))

RatMul(a, b) ==
    LET g1 == GCD(Abs(a.n), b.d)
        g2 == GCD(Abs(b.n), a.d)
    IN  Rat((a.n \div g1) * (b.n \div g2), (a.d \div g2) * (b.d \div g1))

RatDiv(a, b) == RatMul(a, Rat(b.d, b.n))

RatLt(a, b) == a.n * b.d < b.n * a.d

RatLeq(a, b) == a.n * b.d <= b.n * a.d

RECURSIVE RatPow(_, _)
RatPow(a, m) == IF m = 0 THEN Int2Rat(1) ELSE RatMul(a, RatPow(a, m - 1))

RECURSIVE Pow2(_)
Pow2(k) == IF k = 0 THEN 1 ELSE 2 * Pow2(k - 1)

\* Python's true division of two ints
TrueDiv(a, b) == Rat(a, b)

----------------------------------------------------------------------------
(* Results of calls that may raise *)

Return(s) == [err |-> "none", line |-> 0, self |-> s]

Raise(e, l, s) == [err |-> e, line |-> l, self |-> s]

----------------------------------------------------------------------------
(* class PolicyMap *)

add_policy_shifted_key(this, priority_class, min_threshold, max_threshold) ==
    IF ~(0 <= min_threshold /\ min_threshold <= max_threshold /\ max_threshold <= 100)
    THEN Raise("AssertionError", 54, this)
    ELSE Return([this EXCEPT !.policies =
            ((priority_class + 1) :> [min_threshold |-> TrueDiv(min_threshold, 100),
                                      max_threshold |-> TrueDiv(max_threshold, 100)]) @@ @])

add_policy(this, priority_class, min_threshold, max_threshold) ==
    IF ~(0 <= min_threshold /\ min_threshold <= max_threshold /\ max_threshold <= 100)
    THEN Raise("AssertionError", 54, this)
    ELSE Return([this EXCEPT !.policies =
            (priority_class :> [min_threshold |-> TrueDiv(min_threshold, 100),
                                max_threshold |-> TrueDiv(max_threshold, 100)]) @@ @])

\* the for loop of set_map, from priority_class on
RECURSIVE set_map_loop(_, _, _, _)
set_map_loop(this, priority_class, min_threshold, step_size) ==
    IF priority_class >= this.num_priorities
    THEN Return(this)
    ELSE LET r == add_policy(this, priority_class, min_threshold, this.max_threshold)
         IN  IF r.err /= "none"
             THEN r
             ELSE set_map_loop(r.self, priority_class + 1,
                               min_threshold + step_size, step_size)

set_map_wrong_step(this) ==
    LET min_threshold == this.max_threshold \div 2
    IN  IF this.num_priorities = 0
        THEN Raise("ZeroDivisionError", 68, this)
        ELSE set_map_loop(this, 0, min_threshold,
                          this.max_threshold \div this.num_priorities)

set_map_low_base(this) ==
    LET min_threshold == this.max_threshold \div 4
    IN  IF this.num_priorities = 0
        THEN Raise("ZeroDivisionError", 68, this)
        ELSE set_map_loop(this, 0, min_threshold,
                          (this.max_threshold - min_threshold) \div this.num_priorities)

set_map(this) ==
    LET min_threshold == this.max_threshold \div 2
    IN  IF this.num_priorities = 0
        THEN Raise("ZeroDivisionError", 68, this)
        ELSE set_map_loop(this, 0, min_threshold,
                          (this.max_threshold - min_threshold) \div this.num_priorities)

PolicyMap_init(num_priorities, max_threshold) ==
    set_map([policies |-> <<>>,
             num_priorities |-> num_priorities,
             max_threshold |-> max_threshold])

get_policy_map(this) == this.policies

----------------------------------------------------------------------------
(* The RED port that WREDPort extends (ns/port/red_port.py), after the     *)
(* design of the congestion controller: one averaged occupancy and one     *)
(* drop-spacing counter per port, compared against self.min_threshold and  *)
(* self.max_threshold.                                                     *)

REDPort_init(max_threshold, min_threshold, max_probability, weight_factor, qlimit, limit_bytes) ==
    [max_threshold |-> Int2Rat(max_threshold),
     min_threshold |-> Int2Rat(min_threshold),
     max_probability |-> max_probability,
     weight_factor |-> weight_factor,
     qlimit |-> qlimit,
     limit_bytes |-> limit_bytes,
     average_queue_size |-> Int2Rat(0),
     count |-> 0,
     store |-> <<>>,
     byte_size |-> 0,
     packets_received |-> 0,
     packets_dropped |-> 0]

\* the occupancy sampled before the arriving packet is added
current_queue_size(this) ==
    IF this.limit_bytes THEN this.byte_size ELSE Len(this.store)

\* AverageEstimator.update: busy regime, or idle decay over m virtual cycles
update(average, weight_factor, occupancy, m) ==
    LET alpha == Rat(1, Pow2(weight_factor))
        keep == RatSub(Int2Rat(1), alpha)
    IN  IF occupancy = 0
        THEN RatMul(average, RatPow(keep, m))
        ELSE RatAdd(RatMul(average, keep), RatMul(Int2Rat(occupancy), alpha))

\* p_b: the drop probability grows linearly between the two thresholds
linear_probability(average, min_threshold, max_threshold, max_probability) ==
    RatMul(max_probability,
           RatDiv(RatSub(average, min_threshold),
                  RatSub(max_threshold, min_threshold)))

Clamp01(x) ==
    IF RatLt(Int2Rat(1), x) THEN Int2Rat(1)
    ELSE IF x.n < 0 THEN Int2Rat(0) ELSE x

\* 1 - count * p_b, the denominator of the count-based correction
spacing(p_b, count) == RatSub(Int2Rat(1), RatMul(Int2Rat(count), p_b))

\* p_a = p_b / (1 - count * p_b), clamped to [0, 1]
corrected_probability(p_b, den) ==
    IF den.n <= 0 THEN Int2Rat(1) ELSE Clamp01(RatDiv(p_b, den))

probabilistic(p_b, p_a, count, drawn) ==
    IF drawn
    THEN [region |-> "probabilistic", verdict |-> "ProbabilisticDrop",
          count |-> 0, p_b |-> p_b, p_a |-> p_a]
    ELSE [region |-> "probabilistic", verdict |-> "Admit",
          count |-> count + 1, p_b |-> p_b, p_a |-> p_a]

probabilistic_region(p_b, count, drawn) ==
    probabilistic(p_b, corrected_probability(p_b, spacing(p_b, count)), count, drawn)

\* DropDecision.decide; drawn is TRUE when the uniform draw falls below p_a
decide(average, min_threshold, max_threshold, max_probability, count, drawn) ==
    IF RatLt(average, min_threshold)
    THEN [region |-> "admit", verdict |-> "Admit", count |-> count,
          p_b |-> Int2Rat(0), p_a |-> Int2Rat(0)]
    ELSE IF RatLeq(max_threshold, average)
    THEN [region |-> "forced", verdict |-> "ForcedDrop", count |-> 0,
          p_b |-> Int2Rat(1), p_a |-> Int2Rat(1)]
    ELSE probabilistic_region(
            linear_probability(average, min_threshold, max_threshold, max_probability),
            count, drawn)

\* the buffer enqueues an admitted packet unless qlimit would be exceeded
enqueue(this, packet) ==
    IF \/ this.limit_bytes /\ this.byte_size + packet.size > this.qlimit
       \/ ~this.limit_bytes /\ Len(this.store) + 1 > this.qlimit
    THEN [this EXCEPT !.packets_dropped = @ + 1]
    ELSE [this EXCEPT !.store = Append(@, packet),
                      !.byte_size = @ + packet.size]

\* the verdict d taken at the new average is applied to the port
apply_verdict(this, packet, average, d) ==
    [err |-> "none", line |-> 0,
     self |-> IF d.verdict = "Admit"
              THEN enqueue([this EXCEPT !.packets_received = @ + 1,
                                        !.average_queue_size = average,
                                        !.count = d.count], packet)
              ELSE [this EXCEPT !.packets_received = @ + 1,
                                !.average_queue_size = average,
                                !.count = d.count,
                                !.packets_dropped = @ + 1],
     region |-> d.region, verdict |-> d.verdict,
     used_min |-> this.min_threshold, used_max |-> this.max_threshold,
     average |-> average, p_b |-> d.p_b, p_a |-> d.p_a]

decide_at(this, packet, average, drawn) ==
    apply_verdict(this, packet, average,
                  decide(average, this.min_threshold, this.max_threshold,
                         this.max_probability, this.count, drawn))

REDPort_put(this, packet, m, drawn) ==
    decide_at(this, packet,
              update(this.average_queue_size, this.weight_factor,
                     current_queue_size(this), m),
              drawn)

----------------------------------------------------------------------------
(* class WREDPort *)

check_feasibility_none(policies, priorities) == TRUE

check_feasibility_keys(policies, priorities) ==
    \A flow_id \in DOMAIN priorities : flow_id \in DOMAIN policies

\* lines 164-167: every priority in priorities.values() is a key of policies
check_feasibility(policies, priorities) ==
    \A flow_id \in DOMAIN priorities : priorities[flow_id] \in DOMAIN policies

\* lines 156-167, after super().__init__ has set up base
bind_policies(base, built, priorities) ==
    IF built.err /= "none"
    THEN Raise(built.err, built.line, None)
    ELSE IF ~priorities.is_dict
    THEN Raise("ValueError", 161, None)
    ELSE IF ~check_feasibility(get_policy_map(built.self), priorities.items)
    THEN Raise("ValueError", 167, None)
    ELSE Return(base @@ [policies |-> get_policy_map(built.self),
                         priorities |-> priorities.items])

WREDPort_init(priorities, num_priorities, max_threshold, max_probability, weight_factor, qlimit, limit_bytes) ==
    bind_policies(REDPort_init(max_threshold, max_threshold \div 2, max_probability,
                               weight_factor, qlimit, limit_bytes),
                  PolicyMap_init(num_priorities, max_threshold),
                  priorities)

policy_mapper_default(this, flow_id) ==
    LET priority_class == IF flow_id \in DOMAIN this.priorities
                          THEN this.priorities[flow_id] ELSE 0
    IN  IF priority_class \notin DOMAIN this.policies
        THEN Raise("KeyError", 173, this)
        ELSE Return([this EXCEPT
                !.min_threshold = this.policies[priority_class].min_threshold,
                !.max_threshold = this.policies[priority_class].max_threshold])

policy_mapper_by_flow(this, flow_id) ==
    IF flow_id \notin DOMAIN this.priorities
    THEN Raise("KeyError", 172, this)
    ELSE IF flow_id \notin DOMAIN this.policies
    THEN Raise("KeyError", 173, this)
    ELSE Return([this EXCEPT
            !.min_threshold = this.policies[flow_id].min_threshold,
            !.max_threshold = this.policies[flow_id].max_threshold])

policy_mapper_scaling_table(this, flow_id) ==
    IF flow_id \notin DOMAIN this.priorities
    THEN Raise("KeyError", 172, this)
    ELSE LET priority_class == this.priorities[flow_id]
         IN  IF priority_class \notin DOMAIN this.policies
             THEN Raise("KeyError", 173, this)
             ELSE LET scaled == [min_threshold |->
                                    RatMul(this.policies[priority_class].min_threshold,
                                           Int2Rat(this.qlimit)),
                                 max_threshold |->
                                    RatMul(this.policies[priority_class].max_threshold,
                                           Int2Rat(this.qlimit))]
                  IN  Return([this EXCEPT
                          !.policies[priority_class] = scaled,
                          !.min_threshold = scaled.min_threshold,
                          !.max_threshold = scaled.max_threshold])

policy_mapper(this, flow_id) ==
    IF flow_id \notin DOMAIN this.priorities
    THEN Raise("KeyError", 172, this)
    ELSE LET priority_class == this.priorities[flow_id]
         IN  IF priority_class \notin DOMAIN this.policies
             THEN Raise("KeyError", 173, this)
             ELSE Return([this EXCEPT
                     !.min_threshold = this.policies[priority_class].min_threshold,
                     !.max_threshold = this.policies[priority_class].max_threshold])

\* line 183, or the exception of line 182 passed on to the caller
super_put(mapped, packet, m, drawn) ==
    IF mapped.err /= "none"
    THEN [err |-> mapped.err, line |-> mapped.line, self |-> mapped.self,
          mid |-> mapped.self,
          region |-> "none", verdict |-> "none",
          used_min |-> Int2Rat(0), used_max |-> Int2Rat(0),
          average |-> Int2Rat(0), p_b |-> Int2Rat(0), p_a |-> Int2Rat(0)]
    ELSE REDPort_put(mapped.self, packet, m, drawn) @@ [mid |-> mapped.self]

put(this, packet, m, drawn) ==
    super_put(policy_mapper(this, packet.flow_id), packet, m, drawn)

----------------------------------------------------------------------------
(* Specification of PolicyMap alone: the arguments are drawn in Init and   *)
(* the constructor is applied to them.                                     *)

NoArgs == [none |-> TRUE]

NoLast ==
    [flow_id |-> -1, err |-> "none", line |-> 0, pre |-> None, mid |-> None, post |-> None,
     region |-> "none", verdict |-> "none",
     used_min |-> Int2Rat(0), used_max |-> Int2Rat(0),
     average |-> Int2Rat(0), p_b |-> Int2Rat(0),
     prev_flow |-> -1, prev_min |-> Int2Rat(0)]

NoAdds == [count |-> 0, err |-> "none"]

NoMapped == [count |-> 0, flow_id |-> -1, err |-> "none", line |-> 0]

PortIdle ==
    /\ args = NoArgs
    /\ status = "none"
    /\ self = None
    /\ calls = 0
    /\ last = NoLast
    /\ lastmap = NoMapped

InitPolicy ==
    /\ pm_args \in [num_priorities : 0..MaxPrio, max_threshold : -1..101]
    /\ pm = None
    /\ pm_adds = NoAdds
    /\ PortIdle

BuildPolicyMap ==
    /\ pm = None
    /\ pm' = PolicyMap_init(pm_args.num_priorities, pm_args.max_threshold)
    /\ UNCHANGED <<pm_args, pm_adds, args, status, self, calls, last, lastmap>>

\* the public add_policy called on a PolicyMap after its construction
AddPolicy ==
    /\ pm /= None
    /\ pm.err = "none"
    /\ pm_adds.count < MaxAdds
    /\ \E priority_class \in AddClasses, th \in AddThresholds :
         \E r \in {add_policy(pm.self, priority_class, th[1], th[2])} :
             /\ pm' = [pm EXCEPT !.self = r.self]
             /\ pm_adds' = [count |-> pm_adds.count + 1, err |-> r.err]
    /\ UNCHANGED <<pm_args, args, status, self, calls, last, lastmap>>

\* the public set_map called again on a built PolicyMap: classes
\* 0..num_priorities-1 get their built pairs back, other classes stay
SetMap ==
    /\ pm /= None
    /\ pm.err = "none"
    /\ \E r \in {set_map(pm.self)} :
         pm' = [pm EXCEPT !.self = r.self]
    /\ UNCHANGED <<pm_args, pm_adds, args, status, self, calls, last, lastmap>>

NextPolicy == BuildPolicyMap \/ AddPolicy \/ SetMap

SpecPolicy == InitPolicy /\ [][NextPolicy]_vars

----------------------------------------------------------------------------
(* Specification of the port: construction, packet arrivals, service *)

Flows == 0..MaxFlow

PriorityDicts ==
    UNION {[D -> ClassValues] : D \in SUBSET Flows}

PriorityArgs ==
    {[is_dict |-> TRUE, items |-> f] : f \in PriorityDicts}
        \cup {[is_dict |-> FALSE, items |-> <<0, 9>>]}

Packets == [flow_id : 0..(MaxFlow + 1), size : PacketSizes]

Init ==
    /\ pm_args = NoArgs
    /\ pm = None
    /\ pm_adds = NoAdds
    /\ PortIdle

Construct ==
    /\ status = "none"
    /\ \E priorities \in PriorityArgs, num_priorities \in NumPriorities,
          max_threshold \in MaxThresholds, weight_factor \in WeightFactors,
          qlimit \in QLimits, limit_bytes \in BOOLEAN :
         \E r \in {WREDPort_init(priorities, num_priorities, max_threshold,
                                  Rat(1, 10), weight_factor, qlimit, limit_bytes)} :
             /\ args' = [priorities |-> priorities,
                         num_priorities |-> num_priorities,
                         max_threshold |-> max_threshold,
                         max_probability |-> Rat(1, 10),
                         weight_factor |-> weight_factor,
                         qlimit |-> qlimit,
                         limit_bytes |-> limit_bytes]
             /\ status' = IF r.err = "none" THEN "ok" ELSE r.err
             /\ self' = r.self
    /\ UNCHANGED <<pm_args, pm, pm_adds, calls, last, lastmap>>

\* the draws the uniform random value allows for the verdict reached
DrawAllowed(r, drawn) ==
    IF r.region = "probabilistic"
    THEN IF drawn THEN r.p_a.n > 0 ELSE RatLt(r.p_a, Int2Rat(1))
    ELSE ~drawn

Put ==
    /\ status = "ok"
    /\ calls + lastmap.count < MaxCalls
    /\ \E packet \in Packets, m \in IdleCycles, drawn \in BOOLEAN :
         \E r \in {put(self, packet, m, drawn)} :
             /\ DrawAllowed(r, drawn)
             /\ m = 1 \/ (r.err = "none" /\ current_queue_size(self) = 0)
             /\ self' = r.self
             /\ last' = [flow_id |-> packet.flow_id, err |-> r.err, line |-> r.line,
                         pre |-> self, mid |-> r.mid, post |-> r.self,
                         region |-> r.region, verdict |-> r.verdict,
                         used_min |-> r.used_min, used_max |-> r.used_max,
                         average |-> r.average, p_b |-> r.p_b,
                         prev_flow |-> last.flow_id, prev_min |-> last.used_min]
    /\ calls' = calls + 1
    /\ UNCHANGED <<pm_args, pm, pm_adds, args, status, lastmap>>

\* the port's service process takes the head packet off the queue
Serve ==
    /\ status = "ok"
    /\ Len(self.store) > 0
    /\ self' = [self EXCEPT !.store = Tail(@),
                            !.byte_size = @ - Head(self.store).size]
    /\ UNCHANGED <<pm_args, pm, pm_adds, args, status, calls, last, lastmap>>

\* the public policy_mapper called on the port on its own, without put()
PolicyMapper ==
    /\ status = "ok"
    /\ calls + lastmap.count < MaxCalls
    /\ \E flow_id \in 0..(MaxFlow + 1) :
         \E r \in {policy_mapper(self, flow_id)} :
             /\ self' = r.self
             /\ lastmap' = [count |-> lastmap.count + 1, flow_id |-> flow_id,
                            err |-> r.err, line |-> r.line]
    /\ UNCHANGED <<pm_args, pm, pm_adds, args, status, calls, last>>

Next == Construct \/ Put \/ PolicyMapper \/ Serve

Spec == Init /\ [][Next]_vars

----------------------------------------------------------------------------
(* Properties of PolicyMap, checked under SpecPolicy *)

base_min(max_threshold) == max_threshold \div 2

step(num_priorities, max_threshold) ==
    (max_threshold - base_min(max_threshold)) \div num_priorities

\* a stored threshold, back in percentage units
Pct(r) == RatMul(r, Int2Rat(100))

\* the table as PolicyMap.__init__ built it, before any later add_policy
AsBuilt == pm /= None /\ pm_adds.count = 0

ValidPolicyArgs ==
    /\ AsBuilt
    /\ pm_args.num_priorities >= 1
    /\ pm_args.max_threshold \in 0..100

\* C1: for num_priorities >= 1 and max_threshold in 0..100 the build succeeds
\* and class i gets min_threshold base_min + i*step and max_threshold
\* max_threshold, in percentage units; 4 classes under 40 get 20, 25, 30, 35.
C1_TableIsEvenlySpaced ==
    ValidPolicyArgs =>
        /\ pm.err = "none"
        /\ \A i \in 0..(pm_args.num_priorities - 1) :
             /\ i \in DOMAIN pm.self.policies
             /\ Pct(pm.self.policies[i].min_threshold) =
                    Int2Rat(base_min(pm_args.max_threshold)
                            + i * step(pm_args.num_priorities, pm_args.max_threshold))
             /\ Pct(pm.self.policies[i].max_threshold) = Int2Rat(pm_args.max_threshold)
        /\ (pm_args.num_priorities = 4 /\ pm_args.max_threshold = 40) =>
             /\ [i \in 0..3 |-> Pct(pm.self.policies[i].min_threshold).n] =
                    (0 :> 20 @@ 1 :> 25 @@ 2 :> 30 @@ 3 :> 35)
             /\ \A i \in 0..3 : Pct(pm.self.policies[i].max_threshold) = Int2Rat(40)

\* a table whose step is 0: four classes under 5 all share base_min 2
C1_Witness ==
    /\ ValidPolicyArgs
    /\ pm.err = "none"
    /\ pm_args.num_priorities = 4
    /\ pm_args.max_threshold = 5
    /\ step(4, 5) = 0
    /\ \A i \in 0..3 : pm.self.policies[i].min_threshold = Rat(2, 100)

\* C3 as stated: every class's min_threshold is at least the exact half of
\* the global max_threshold, and every class's max_threshold equals it.
C3_MinAtLeastExactHalf ==
    ValidPolicyArgs =>
        /\ pm.err = "none"
        /\ \A i \in DOMAIN pm.self.policies :
             /\ RatLeq(Rat(pm_args.max_threshold, 2), Pct(pm.self.policies[i].min_threshold))
             /\ Pct(pm.self.policies[i].max_threshold) = Int2Rat(pm_args.max_threshold)

\* C3 amended: every class's min_threshold is at least max_threshold // 2,
\* the floored half, and every class's max_threshold equals max_threshold.
C3_MinAtLeastFlooredHalf ==
    ValidPolicyArgs =>
        /\ pm.err = "none"
        /\ \A i \in DOMAIN pm.self.policies :
             /\ RatLeq(Int2Rat(pm_args.max_threshold \div 2),
                       Pct(pm.self.policies[i].min_threshold))
             /\ Pct(pm.self.policies[i].max_threshold) = Int2Rat(pm_args.max_threshold)

\* an odd max_threshold: class 0 sits at 20, below the exact half 20.5
C3_Witness ==
    /\ ValidPolicyArgs
    /\ pm.err = "none"
    /\ pm_args.max_threshold = 41
    /\ pm_args.num_priorities = 4
    /\ pm.self.policies[0].min_threshold = Rat(20, 100)

\* C4: a built table has exactly the classes 0..num_priorities-1 and both
\* thresholds are non-decreasing in the class.
C4_ExactClassesMonotone ==
    (AsBuilt /\ pm.err = "none") =>
        /\ DOMAIN pm.self.policies = 0..(pm_args.num_priorities - 1)
        /\ \A i, j \in DOMAIN pm.self.policies :
             i < j =>
                /\ RatLeq(pm.self.policies[i].min_threshold,
                          pm.self.policies[j].min_threshold)
                /\ RatLeq(pm.self.policies[i].max_threshold,
                          pm.self.policies[j].max_threshold)

C4_Witness ==
    /\ AsBuilt
    /\ pm.err = "none"
    /\ pm_args.num_priorities = MaxPrio
    /\ DOMAIN pm.self.policies = 0..(MaxPrio - 1)
    /\ RatLt(pm.self.policies[0].min_threshold,
             pm.self.policies[MaxPrio - 1].min_threshold)

----------------------------------------------------------------------------
(* Properties of WREDPort, checked under Spec *)

Constructed == status = "ok"

\* the last put() got as far as the RED decision
Decided == Constructed /\ calls > 0 /\ last.err = "none"

LastClass == last.pre.priorities[last.flow_id]

\* C2 as stated: after policy_mapper the port's thresholds are the class
\* percentages divided by 100 and multiplied by the queue capacity.
C2_ThresholdsScaledByCapacity ==
    Decided =>
        /\ last.mid.min_threshold =
              RatMul(RatMul(Int2Rat(base_min(args.max_threshold)
                                    + LastClass * step(args.num_priorities,
                                                       args.max_threshold)),
                            Rat(1, 100)),
                     Int2Rat(args.qlimit))
        /\ last.mid.max_threshold =
              RatMul(Rat(args.max_threshold, 100), Int2Rat(args.qlimit))

\* C5: construction fails, and returns no port, whenever some flow is
\* assigned a priority class outside 0..num_priorities-1.
C5_UnknownClassFailsConstruction ==
    (/\ status /= "none"
     /\ args.priorities.is_dict
     /\ \E f \in DOMAIN args.priorities.items :
           args.priorities.items[f] \notin 0..(args.num_priorities - 1))
    => /\ status /= "ok"
       /\ self = None
       /\ calls = 0
       /\ lastmap.count = 0
       /\ PolicyMap_init(args.num_priorities, args.max_threshold).err = "none"
             => status = "ValueError"

\* class 9 among 8 priorities
C5_Witness ==
    /\ status = "ValueError"
    /\ args.num_priorities = 8
    /\ args.priorities.is_dict
    /\ \E f \in DOMAIN args.priorities.items : args.priorities.items[f] = 9
    /\ self = None

\* C6: on a constructed port every class reachable through priorities has
\* a policy with both thresholds, and a put() of an assigned flow never
\* fails in the policy lookup.
C6_PolicyLookupNeverFails ==
    Constructed =>
        /\ \A f \in DOMAIN self.priorities :
             /\ self.priorities[f] \in DOMAIN self.policies
             /\ DOMAIN self.policies[self.priorities[f]] =
                    {"min_threshold", "max_threshold"}
        /\ ~(calls > 0 /\ last.err = "KeyError" /\ last.line = 173)
        /\ (calls > 0 /\ last.flow_id \in DOMAIN last.pre.priorities)
              => last.err = "none"
        /\ (lastmap.count > 0 /\ lastmap.flow_id \in DOMAIN self.priorities)
              => lastmap.err = "none"

C6_Witness ==
    /\ Decided
    /\ args.num_priorities = 8
    /\ LastClass = 3
    /\ last.used_min = self.policies[3].min_threshold

\* C7: put() of a packet whose flow has no priority raises to the caller
\* before the thresholds change and before the RED decision: thresholds,
\* average and queue are as before the call.
C7_UnassignedFlowRaisesUnchanged ==
    (Constructed /\ calls > 0 /\ last.flow_id \notin DOMAIN last.pre.priorities)
    => /\ last.err = "KeyError"
       /\ last.line = 172
       /\ last.verdict = "none"
       /\ last.mid = last.pre
       /\ last.post = last.pre

\* raised on a port that has already averaged a non-empty queue
C7_Witness ==
    /\ Constructed
    /\ calls >= 2
    /\ last.err = "KeyError"
    /\ last.flow_id \notin DOMAIN last.pre.priorities
    /\ last.pre.average_queue_size.n > 0
    /\ Len(last.pre.store) > 0
    /\ last.pre.min_threshold /= Int2Rat(args.max_threshold \div 2)

\* C8: every RED decision is taken with the thresholds of the packet's own
\* priority class, whatever the class of the packets before it.
C8_DecisionUsesOwnClassThresholds ==
    Decided =>
        /\ last.used_min = last.pre.policies[LastClass].min_threshold
        /\ last.used_max = last.pre.policies[LastClass].max_threshold
        /\ last.mid.min_threshold = last.used_min
        /\ last.mid.max_threshold = last.used_max

\* a packet of one class decided right after a packet of another class
C8_Witness ==
    /\ Decided
    /\ calls >= 2
    /\ last.prev_flow \in DOMAIN last.pre.priorities
    /\ last.pre.priorities[last.prev_flow] /= LastClass
    /\ last.prev_min = last.pre.min_threshold
    /\ last.prev_min /= last.used_min

\* C9 as stated: with a shared average A and min_threshold(i) <= A <
\* min_threshold(j) a class-i packet is in the probabilistic region and a
\* class-j packet is admitted; with 4 priorities, max_threshold 40,
\* capacity 1000 and average 300, class 0 is probabilistic with
\* p_b = max_probability / 2 and class 3 is admitted.
C9_SharedAverageOwnThresholds ==
    Decided =>
        /\ \A j \in DOMAIN last.pre.policies :
             /\ (/\ LastClass < j
                 /\ RatLeq(last.pre.policies[LastClass].min_threshold, last.average)
                 /\ RatLt(last.average, last.pre.policies[j].min_threshold))
                => last.region = "probabilistic"
             /\ (/\ j < LastClass
                 /\ RatLeq(last.pre.policies[j].min_threshold, last.average)
                 /\ RatLt(last.average, last.pre.policies[LastClass].min_threshold))
                => last.region = "admit"
        /\ (/\ args.num_priorities = 4
            /\ args.max_threshold = 40
            /\ args.qlimit = 1000
            /\ last.average = Int2Rat(300))
           => /\ LastClass = 0 =>
                    /\ last.region = "probabilistic"
                    /\ last.p_b = RatMul(Rat(1, 2), args.max_probability)
              /\ LastClass = 3 => last.region = "admit"

\* what put() and policy_mapper() leave as it was
KeptByPut(before, after) ==
    \A field \in {"policies", "priorities", "max_probability", "weight_factor"} :
        after[field] = before[field]

KeptByMapper(before, after) ==
    /\ DOMAIN after = DOMAIN before
    /\ \A field \in DOMAIN before \ {"min_threshold", "max_threshold"} :
         after[field] = before[field]

C10_State ==
    Constructed =>
        /\ calls > 0 =>
             /\ KeptByMapper(last.pre, last.mid)
             /\ KeptByPut(last.pre, last.post)
             /\ KeptByPut(last.pre, self)
        /\ self.policies =
              get_policy_map(PolicyMap_init(args.num_priorities,
                                            args.max_threshold).self)

\* C10: policy_mapper, inside put() or called on its own, changes only
\* min_threshold and max_threshold of the port; put() leaves the table, the
\* assignment, max_probability and weight_factor alone, and the table stays
\* the one built at construction.
C10_MapperChangesOnlyThresholds ==
    /\ []C10_State
    /\ [][lastmap'.count = lastmap.count + 1 => KeptByMapper(self, self')]_vars

\* the mapper moved the thresholds of a port holding a queued packet,
\* and had moved them once on its own, outside put()
C10_Witness ==
    /\ Decided
    /\ calls >= 2
    /\ last.mid.min_threshold /= last.pre.min_threshold
    /\ Len(last.pre.store) > 0
    /\ last.pre.packets_received > 0
    /\ last.mid.average_queue_size = last.pre.average_queue_size
    /\ lastmap.count > 0
    /\ lastmap.err = "none"

\* a later add_policy call adds a class to, or overwrites a class of, the
\* table that PolicyMap.__init__ built
TableChangedByAddPolicy ==
    /\ pm /= None
    /\ pm.err = "none"
    /\ pm_adds.count > 0
    /\ pm_adds.err = "none"
    /\ DOMAIN pm.self.policies /= 0..(pm_args.num_priorities - 1)

\* set_map called again restores a class that add_policy had overwritten
TableRestoredBySetMap ==
    /\ pm /= None
    /\ pm.err = "none"
    /\ pm_adds.count > 0
    /\ pm_adds.err = "none"
    /\ pm_args.num_priorities = 4
    /\ pm_args.max_threshold = 40
    /\ pm.self = PolicyMap_init(4, 40).self

\* policy_mapper on its own moves the thresholds of a port that has
\* received no packet
MappedWithoutPut ==
    /\ Constructed
    /\ self.packets_received = 0
    /\ self.min_threshold /= Int2Rat(args.max_threshold \div 2)

====
